---- MODULE Spec2Model ----
(***************************************************************************)
(* Model of scripts/ocr/paddleocr.py: the command entry point main() and   *)
(* the recognition invoker run_ocr().  The process is one sequential       *)
(* thread; pc is the statement about to execute.  Strings are sequences of *)
(* one-character strings, so that joining and JSON encoding are computed   *)
(* character by character.  Python values that the engine hands back are   *)
(* tagged records, so that indexing (item[1][0]) and iteration behave as   *)
(* they do in Python, including the errors they raise.                     *)
(***************************************************************************)
EXTENDS Integers, Sequences, FiniteSets, TLC

VARIABLES
    argv,        \* sys.argv; argv[1] is the program name (Python's argv[0])
    pc,          \* statement about to run
    stdout,      \* characters written to standard output so far
    exitStatus,  \* -1 while running, else the process exit status
    traceback,   \* TRUE once an unhandled exception ended the process
    image_path,  \* main's local image_path / run_ocr's parameter
    ctorCalls,   \* option sets of the PaddleOCR(...) constructions made
    ocrCalls,    \* arguments of the ocr.ocr(...) calls made
    result,      \* run_ocr's local result
    lines,       \* run_ocr's local lines
    pageIdx,     \* position of the iterator of "for page in result"
    page,        \* run_ocr's local page
    itemIdx,     \* position of the iterator of "for item in page"
    item,        \* run_ocr's local item
    text,        \* run_ocr's local text (item text, later the joined text)
    output       \* main's local output

vars == <<argv, pc, stdout, exitStatus, traceback, image_path, ctorCalls,
          ocrCalls, result, lines, pageIdx, page, itemIdx, item, text, output>>

-----------------------------------------------------------------------------
(* Bounds of the engine results explored.                                  *)
MaxPages == 2
MaxItems == 2

-----------------------------------------------------------------------------
(* Characters and strings.                                                 *)
LF == "\n"
QUOTE == "\""
BACKSLASH == "\\"

Hello == <<"H", "e", "l", "l", "o">>
World == <<"W", "o", "r", "l", "d">>
ProgName == <<"o", "c", "r">>
EmptyPath == <<>>
ImgPath == <<"a", ".", "p", "n", "g">>
ExtraArg == <<"-", "v">>

-----------------------------------------------------------------------------
(* Python values.                                                          *)
PyUnbound == [tag |-> "unbound", s |-> <<>>, elems |-> <<>>]
PyNone == [tag |-> "none", s |-> <<>>, elems |-> <<>>]
PyFloat == [tag |-> "float", s |-> <<>>, elems |-> <<>>]
PyStr(chars) == [tag |-> "str", s |-> chars, elems |-> <<>>]
PyTuple(es) == [tag |-> "tuple", s |-> <<>>, elems |-> es]
PyList(es) == [tag |-> "list", s |-> <<>>, elems |-> es]
\* A dict with string keys: its (key, value) pairs in insertion order.
PyDict(pairs) ==
    [tag |-> "dict", s |-> <<>>,
     elems |-> [k \in 1..Len(pairs) |-> PyTuple(<<PyStr(pairs[k][1]), pairs[k][2]>>)]]
PyError == [tag |-> "error", s |-> <<>>, elems |-> <<>>]

\* v[i] with a non-negative Python index i; PyError when Python raises
\* (IndexError out of range, TypeError on a value that is not subscriptable).
PyIndex(v, i) ==
    IF v.tag \in {"tuple", "list"} /\ i < Len(v.elems) THEN v.elems[i + 1]
    ELSE IF v.tag = "str" /\ i < Len(v.s) THEN PyStr(<<v.s[i + 1]>>)
    ELSE PyError

\* iter(v): whether "for x in v" can start (TypeError otherwise).
PyIterable(v) == v.tag \in {"tuple", "list", "str"}

\* The sequence "for x in v" walks through.
PyItems(v) ==
    IF v.tag \in {"tuple", "list"} THEN v.elems
    ELSE [k \in 1..Len(v.s) |-> PyStr(<<v.s[k]>>)]

-----------------------------------------------------------------------------
(* Library operations the script calls.                                    *)

\* A join that also ends the last string with the separator.
RECURSIVE StrJoin_Trailing(_, _)
StrJoin_Trailing(sep, strs) ==
    IF Len(strs) = 0 THEN <<>>
    ELSE strs[1] \o sep \o StrJoin_Trailing(sep, Tail(strs))

\* sep.join(strs) on a sequence of character sequences (str.join).
RECURSIVE StrJoin(_, _)
StrJoin(sep, strs) ==
    IF Len(strs) = 0 THEN <<>>
    ELSE IF Len(strs) = 1 THEN strs[1]
    ELSE strs[1] \o sep \o StrJoin(sep, Tail(strs))

\* json.dumps of one character inside a string literal (ensure_ascii default;
\* the characters of the model are ASCII and the only control character is LF).
JsonEscape(c) ==
    IF c = QUOTE THEN <<BACKSLASH, QUOTE>>
    ELSE IF c = BACKSLASH THEN <<BACKSLASH, BACKSLASH>>
    ELSE IF c = LF THEN <<BACKSLASH, "n">>
    ELSE <<c>>

RECURSIVE JsonEscapeAll(_)
JsonEscapeAll(chars) ==
    IF Len(chars) = 0 THEN <<>>
    ELSE JsonEscape(Head(chars)) \o JsonEscapeAll(Tail(chars))

JsonString(chars) == <<QUOTE>> \o JsonEscapeAll(chars) \o <<QUOTE>>

\* The item separator ", " and the key separator ": " of json.dumps' defaults.
JsonItemSep == <<",", " ">>
JsonKeySep == <<":", " ">>

\* The encoded members of an array or object, separated by the item separator.
RECURSIVE JsonItems(_)
JsonItems(parts) ==
    IF Len(parts) = 0 THEN <<>>
    ELSE IF Len(parts) = 1 THEN parts[1]
    ELSE parts[1] \o JsonItemSep \o JsonItems(Tail(parts))

\* json.dumps(v) for the values the script serialises: str, list, dict
\* (a dict is the sequence of its (key, value) pairs in insertion order).
RECURSIVE JsonDumps(_)
JsonDumps(v) ==
    IF v.tag = "str" THEN JsonString(v.s)
    ELSE IF v.tag = "list" THEN
        <<"[">>
        \o JsonItems([k \in 1..Len(v.elems) |-> JsonDumps(v.elems[k])])
        \o <<"]">>
    ELSE IF v.tag = "dict" THEN
        <<"{">>
        \o JsonItems(
                   [k \in 1..Len(v.elems) |->
                       JsonString(v.elems[k].elems[1].s) \o JsonKeySep
                       \o JsonDumps(v.elems[k].elems[2])])
        \o <<"}">>
    ELSE <<"n", "u", "l", "l">>

\* print(s): writes s and a line terminator to standard output.
PrintTo(out, chars) == out \o chars \o <<LF>>

-----------------------------------------------------------------------------
(* The literals of the script.                                             *)
ErrorKey == <<"e", "r", "r", "o", "r">>
MissingFilePath == <<"M", "i", "s", "s", "i", "n", "g", " ", "f", "i", "l", "e", " ", "p", "a", "t", "h">>
TextKey == <<"t", "e", "x", "t">>
LinesKey == <<"l", "i", "n", "e", "s">>
LangEn == <<"e", "n">>

\* {"error": "Missing file path"}
ErrorObject == PyDict(<<<<ErrorKey, PyStr(MissingFilePath)>>>>)

\* {"text": text, "lines": lines}
OutputObject(t, ls) == PyDict(<<<<TextKey, t>>, <<LinesKey, PyList(ls)>>>>)

\* PaddleOCR(use_angle_cls=True, lang="en", show_log=False)
OcrOptions == [use_angle_cls |-> TRUE, lang |-> LangEn, show_log |-> FALSE]

-----------------------------------------------------------------------------
(* Inputs: the argument lists and what the engine can answer.              *)
SeqsUpTo(S, n) == UNION {[1..k -> S] : k \in 0..n}

Argvs == {<<ProgName>>, <<ProgName, EmptyPath>>, <<ProgName, ImgPath>>,
          <<ProgName, ImgPath, ExtraArg>>}

\* An item as the engine builds it: [box, (text, confidence)].
Box == PyList(<<>>)
EngineItem(t) == PyList(<<Box, PyTuple(<<PyStr(t), PyFloat>>)>>)
\* An item shaped as a pair (name, text), the shape of a test double whose
\* second component is the string itself.
ItemA == <<"i", "t", "e", "m", "_", "a">>
ItemB == <<"i", "t", "e", "m", "_", "b">>
PairItem(name, t) == PyTuple(<<PyStr(name), PyStr(t)>>)

EngineItems == {EngineItem(Hello), EngineItem(World), PyNone}
EnginePages == {PyList(is) : is \in SeqsUpTo(EngineItems, MaxItems)} \cup {PyNone}
EngineResults == {PyList(ps) : ps \in SeqsUpTo(EnginePages, MaxPages)}
PairItems == {PairItem(ItemA, Hello), PairItem(ItemB, World)}
PairResults == {PyList(<<PyList(is)>>) : is \in SeqsUpTo(PairItems, MaxItems)}
Results == EngineResults \cup PairResults

-----------------------------------------------------------------------------
(* The process.                                                            *)
Init ==
    /\ argv \in Argvs
    /\ pc = "main"
    /\ stdout = <<>>
    /\ exitStatus = -1
    /\ traceback = FALSE
    /\ image_path = PyUnbound
    /\ ctorCalls = <<>>
    /\ ocrCalls = <<>>
    /\ result = PyUnbound
    /\ lines = <<>>
    /\ pageIdx = 0
    /\ page = PyUnbound
    /\ itemIdx = 0
    /\ item = PyUnbound
    /\ text = PyUnbound
    /\ output = PyUnbound

\* An exception that is caught inside run_ocr, which goes on to return what
\* was collected.
Unhandled_PrintsPartial ==
    /\ pc' = "join"
    /\ exitStatus' = exitStatus
    /\ traceback' = TRUE

\* An exception nothing catches: the interpreter prints a traceback to the
\* standard error stream and the process ends with status 1.
Unhandled ==
    /\ pc' = "exited"
    /\ exitStatus' = 1
    /\ traceback' = TRUE

\* The argument check off by one: len(sys.argv) < 1.
MainCheckArgs_OffByOne ==
    /\ pc = "main"
    /\ pc' = IF Len(argv) < 1 THEN "print_error" ELSE "read_path"
    /\ UNCHANGED <<argv, stdout, exitStatus, traceback, image_path, ctorCalls,
                   ocrCalls, result, lines, pageIdx, page, itemIdx, item, text,
                   output>>

\* line 21: if len(sys.argv) < 2
MainCheckArgs ==
    /\ pc = "main"
    /\ pc' = IF Len(argv) < 2 THEN "print_error" ELSE "read_path"
    /\ UNCHANGED <<argv, stdout, exitStatus, traceback, image_path, ctorCalls,
                   ocrCalls, result, lines, pageIdx, page, itemIdx, item, text,
                   output>>

\* line 22: print(json.dumps({"error": "Missing file path"}))
PrintError ==
    /\ pc = "print_error"
    /\ stdout' = PrintTo(stdout, JsonDumps(ErrorObject))
    /\ pc' = "sys_exit"
    /\ UNCHANGED <<argv, exitStatus, traceback, image_path, ctorCalls, ocrCalls,
                   result, lines, pageIdx, page, itemIdx, item, text, output>>

\* sys.exit(0) in place of sys.exit(1).
SysExit_StatusZero ==
    /\ pc = "sys_exit"
    /\ exitStatus' = 0
    /\ pc' = "exited"
    /\ UNCHANGED <<argv, stdout, traceback, image_path, ctorCalls, ocrCalls,
                   result, lines, pageIdx, page, itemIdx, item, text, output>>

\* line 23: sys.exit(1); SystemExit is not caught, the process ends with 1.
SysExit ==
    /\ pc = "sys_exit"
    /\ exitStatus' = 1
    /\ pc' = "exited"
    /\ UNCHANGED <<argv, stdout, traceback, image_path, ctorCalls, ocrCalls,
                   result, lines, pageIdx, page, itemIdx, item, text, output>>

\* image_path = sys.argv[-1] in place of sys.argv[1].
ReadPath_LastArgument ==
    /\ pc = "read_path"
    /\ IF Len(argv) < 2
       THEN /\ Unhandled
            /\ UNCHANGED image_path
       ELSE /\ image_path' = PyStr(argv[Len(argv)])
            /\ pc' = "construct"
            /\ UNCHANGED <<exitStatus, traceback>>
    /\ UNCHANGED <<argv, stdout, ctorCalls, ocrCalls, result, lines, pageIdx,
                   page, itemIdx, item, text, output>>

\* lines 25-26: image_path = sys.argv[1] (IndexError when there is none);
\* run_ocr(image_path) is entered.
ReadPath ==
    /\ pc = "read_path"
    /\ IF Len(argv) < 2
       THEN /\ Unhandled
            /\ UNCHANGED image_path
       ELSE /\ image_path' = PyStr(argv[2])
            /\ pc' = "construct"
            /\ UNCHANGED <<exitStatus, traceback>>
    /\ UNCHANGED <<argv, stdout, ctorCalls, ocrCalls, result, lines, pageIdx,
                   page, itemIdx, item, text, output>>

\* line 7: ocr = PaddleOCR(...); the engine either is built or raises.
Construct ==
    /\ pc = "construct"
    /\ ctorCalls' = Append(ctorCalls, OcrOptions)
    /\ \E ok \in BOOLEAN :
          IF ok
          THEN /\ pc' = "recognize"
               /\ UNCHANGED <<exitStatus, traceback>>
          ELSE Unhandled
    /\ UNCHANGED <<argv, stdout, image_path, ocrCalls, result, lines, pageIdx,
                   page, itemIdx, item, text, output>>

\* line 8: result = ocr.ocr(image_path, cls=True); the engine answers with
\* some result or raises.
Recognize ==
    /\ pc = "recognize"
    /\ ocrCalls' = Append(ocrCalls, [path |-> image_path, cls |-> TRUE])
    /\ \/ \E r \in Results :
             /\ result' = r
             /\ pc' = "init_lines"
             /\ UNCHANGED <<exitStatus, traceback>>
       \/ /\ Unhandled
          /\ UNCHANGED result
    /\ UNCHANGED <<argv, stdout, image_path, ctorCalls, lines, pageIdx, page,
                   itemIdx, item, text, output>>

\* line 10: lines = []
InitLines ==
    /\ pc = "init_lines"
    /\ lines' = <<>>
    /\ pc' = "for_page"
    /\ UNCHANGED <<argv, stdout, exitStatus, traceback, image_path, ctorCalls,
                   ocrCalls, result, pageIdx, page, itemIdx, item, text, output>>

\* line 11: for page in result
ForPage ==
    /\ pc = "for_page"
    /\ IF ~PyIterable(result)
       THEN /\ Unhandled
            /\ UNCHANGED <<page, pageIdx, itemIdx>>
       ELSE IF pageIdx < Len(PyItems(result))
       THEN /\ page' = PyItems(result)[pageIdx + 1]
            /\ pageIdx' = pageIdx + 1
            /\ itemIdx' = 0
            /\ pc' = "for_item"
            /\ UNCHANGED <<exitStatus, traceback>>
       ELSE /\ pc' = "join"
            /\ UNCHANGED <<page, pageIdx, itemIdx, exitStatus, traceback>>
    /\ UNCHANGED <<argv, stdout, image_path, ctorCalls, ocrCalls, result, lines,
                   item, text, output>>

\* line 12: for item in page
ForItem ==
    /\ pc = "for_item"
    /\ IF ~PyIterable(page)
       THEN /\ Unhandled
            /\ UNCHANGED <<item, itemIdx>>
       ELSE IF itemIdx < Len(PyItems(page))
       THEN /\ item' = PyItems(page)[itemIdx + 1]
            /\ itemIdx' = itemIdx + 1
            /\ pc' = "get_text"
            /\ UNCHANGED <<exitStatus, traceback>>
       ELSE /\ pc' = "for_page"
            /\ UNCHANGED <<item, itemIdx, exitStatus, traceback>>
    /\ UNCHANGED <<argv, stdout, image_path, ctorCalls, ocrCalls, result, lines,
                   pageIdx, page, text, output>>

\* item[1] in place of item[1][0].
ItemText_SecondComponent(it) == PyIndex(it, 1)

\* The value of item[1][0], PyError when either subscript raises.
ItemText(it) == PyIndex(PyIndex(it, 1), 0)

\* line 13: text = item[1][0]
GetText ==
    /\ pc = "get_text"
    /\ IF ItemText(item) = PyError
       THEN /\ Unhandled
            /\ UNCHANGED text
       ELSE /\ text' = ItemText(item)
            /\ pc' = "append"
            /\ UNCHANGED <<exitStatus, traceback>>
    /\ UNCHANGED <<argv, stdout, image_path, ctorCalls, ocrCalls, result, lines,
                   pageIdx, page, itemIdx, item, output>>

\* lines.insert(0, text) in place of lines.append(text).
AppendLine_Prepend ==
    /\ pc = "append"
    /\ lines' = <<text>> \o lines
    /\ pc' = "for_item"
    /\ UNCHANGED <<argv, stdout, exitStatus, traceback, image_path, ctorCalls,
                   ocrCalls, result, pageIdx, page, itemIdx, item, text, output>>

\* An append that skips a string already collected.
AppendLine_Dedup ==
    /\ pc = "append"
    /\ lines' = IF \E k \in 1..Len(lines) : lines[k] = text
                THEN lines ELSE Append(lines, text)
    /\ pc' = "for_item"
    /\ UNCHANGED <<argv, stdout, exitStatus, traceback, image_path, ctorCalls,
                   ocrCalls, result, pageIdx, page, itemIdx, item, text, output>>

\* line 14: lines.append(text)
AppendLine ==
    /\ pc = "append"
    /\ lines' = Append(lines, text)
    /\ pc' = "for_item"
    /\ UNCHANGED <<argv, stdout, exitStatus, traceback, image_path, ctorCalls,
                   ocrCalls, result, pageIdx, page, itemIdx, item, text, output>>

\* text = "\n".join(lines) + "\n"
Join_EndsWithNewline ==
    /\ pc = "join"
    /\ IF \A k \in 1..Len(lines) : lines[k].tag = "str"
       THEN /\ text' = PyStr(StrJoin(<<LF>>, [k \in 1..Len(lines) |-> lines[k].s])
                             \o <<LF>>)
            /\ pc' = "return"
            /\ UNCHANGED <<exitStatus, traceback>>
       ELSE /\ Unhandled
            /\ UNCHANGED text
    /\ UNCHANGED <<argv, stdout, image_path, ctorCalls, ocrCalls, result, lines,
                   pageIdx, page, itemIdx, item, output>>

\* line 16: text = "\n".join(lines); TypeError when an element is no str.
Join ==
    /\ pc = "join"
    /\ IF \A k \in 1..Len(lines) : lines[k].tag = "str"
       THEN /\ text' = PyStr(StrJoin(<<LF>>, [k \in 1..Len(lines) |-> lines[k].s]))
            /\ pc' = "return"
            /\ UNCHANGED <<exitStatus, traceback>>
       ELSE /\ Unhandled
            /\ UNCHANGED text
    /\ UNCHANGED <<argv, stdout, image_path, ctorCalls, ocrCalls, result, lines,
                   pageIdx, page, itemIdx, item, output>>

\* lines 17 and 26: return {"text": text, "lines": lines}; output = run_ocr(...)
Return ==
    /\ pc = "return"
    /\ output' = OutputObject(text, lines)
    /\ pc' = "print_output"
    /\ UNCHANGED <<argv, stdout, exitStatus, traceback, image_path, ctorCalls,
                   ocrCalls, result, lines, pageIdx, page, itemIdx, item, text>>

\* The output printed a second time.
PrintOutput_Twice ==
    /\ pc = "print_output"
    /\ stdout' = PrintTo(PrintTo(stdout, JsonDumps(output)), JsonDumps(output))
    /\ pc' = "main_return"
    /\ UNCHANGED <<argv, exitStatus, traceback, image_path, ctorCalls, ocrCalls,
                   result, lines, pageIdx, page, itemIdx, item, text, output>>

\* line 27: print(json.dumps(output))
PrintOutput ==
    /\ pc = "print_output"
    /\ stdout' = PrintTo(stdout, JsonDumps(output))
    /\ pc' = "main_return"
    /\ UNCHANGED <<argv, exitStatus, traceback, image_path, ctorCalls, ocrCalls,
                   result, lines, pageIdx, page, itemIdx, item, text, output>>

\* lines 30-31: main() returns and the interpreter ends with status 0.
MainReturn ==
    /\ pc = "main_return"
    /\ exitStatus' = 0
    /\ pc' = "exited"
    /\ UNCHANGED <<argv, stdout, traceback, image_path, ctorCalls, ocrCalls,
                   result, lines, pageIdx, page, itemIdx, item, text, output>>

Next ==
    \/ MainCheckArgs
    \/ PrintError
    \/ SysExit
    \/ ReadPath
    \/ Construct
    \/ Recognize
    \/ InitLines
    \/ ForPage
    \/ ForItem
    \/ GetText
    \/ AppendLine
    \/ Join
    \/ Return
    \/ PrintOutput
    \/ MainReturn

Spec == Init /\ [][Next]_vars

-----------------------------------------------------------------------------
(* What the properties below speak about.                                  *)

\* The lines of text standard output would show, written out in full.
ErrorLine ==
    <<"{", QUOTE, "e", "r", "r", "o", "r", QUOTE, ":", " ", QUOTE, "M", "i",
      "s", "s", "i", "n", "g", " ", "f", "i", "l", "e", " ", "p", "a", "t",
      "h", QUOTE, "}", LF>>
HelloWorldLine ==
    <<"{", QUOTE, "t", "e", "x", "t", QUOTE, ":", " ", QUOTE, "H", "e", "l",
      "l", "o", BACKSLASH, "n", "W", "o", "r", "l", "d", QUOTE, ",", " ",
      QUOTE, "l", "i", "n", "e", "s", QUOTE, ":", " ", "[", QUOTE, "H", "e",
      "l", "l", "o", QUOTE, ",", " ", QUOTE, "W", "o", "r", "l", "d", QUOTE,
      "]", "}", LF>>
FirstCharsLine ==
    <<"{", QUOTE, "t", "e", "x", "t", QUOTE, ":", " ", QUOTE, "H", BACKSLASH,
      "n", "W", QUOTE, ",", " ", QUOTE, "l", "i", "n", "e", "s", QUOTE, ":",
      " ", "[", QUOTE, "H", QUOTE, ",", " ", QUOTE, "W", QUOTE, "]", "}", LF>>
EmptyLine ==
    <<"{", QUOTE, "t", "e", "x", "t", QUOTE, ":", " ", QUOTE, QUOTE, ",",
      " ", QUOTE, "l", "i", "n", "e", "s", QUOTE, ":", " ", "[", "]", "}",
      LF>>

Exited == pc = "exited"
\* run_ocr has returned: main holds its result.
Returned == output # PyUnbound
OutText == output.elems[1].elems[2].s
OutLines ==
    [k \in 1..Len(output.elems[2].elems[2].elems) |->
        output.elems[2].elems[2].elems[k].s]
OutKeys == [k \in 1..Len(output.elems) |-> output.elems[k].elems[1].s]

\* Number of line terminators in a character sequence.
CountLF(chars) == Cardinality({k \in 1..Len(chars) : chars[k] = LF})

\* Total length of the first n strings, each followed by one separator.
RECURSIVE OffsetOf(_, _)
OffsetOf(strs, n) ==
    IF n = 0 THEN 0 ELSE OffsetOf(strs, n - 1) + Len(strs[n]) + 1

\* Number of items on the first n pages of a result.
RECURSIVE ItemsBefore(_, _)
ItemsBefore(res, n) ==
    IF n = 0 THEN 0 ELSE ItemsBefore(res, n - 1) + Len(res.elems[n].elems)

\* The string the engine put into an item [box, (text, confidence)].
RecognizedString(it) == it.elems[2].elems[1].s

\* Every page of the result is a list of items [box, (text, confidence)].
EngineShaped(res) ==
    \A p \in 1..Len(res.elems) :
        /\ res.elems[p].tag = "list"
        /\ \A j \in 1..Len(res.elems[p].elems) :
              LET it == res.elems[p].elems[j] IN
              /\ it.tag = "list"
              /\ Len(it.elems) = 2
              /\ it.elems[2].tag = "tuple"
              /\ Len(it.elems[2].elems) = 2
              /\ it.elems[2].elems[1].tag = "str"

HelloWorldPage == PyList(<<PyList(<<EngineItem(Hello), EngineItem(World)>>)>>)
HelloWorldPairs ==
    PyList(<<PyList(<<PairItem(ItemA, Hello), PairItem(ItemB, World)>>)>>)

-----------------------------------------------------------------------------
(* Properties.                                                             *)

\* C1: with zero positional arguments the only thing ever written to
\* standard output is the line {"error": "Missing file path"}, and the
\* process ends with exit status 1 having written it.
C1_MissingArgument ==
    Len(argv) = 1 =>
        /\ stdout \in {<<>>, ErrorLine}
        /\ Exited => (stdout = ErrorLine /\ exitStatus = 1 /\ ~traceback)
C1_Witness == Len(argv) = 1 /\ Exited /\ stdout # <<>>

\* C2 (as stated): for the page of pair-shaped items ("item_a", "Hello"),
\* ("item_b", "World") the run ends with status 0 having printed
\* {"text": "Hello\nWorld", "lines": ["Hello", "World"]}.
C2_PairsPrintFullStrings ==
    (Exited /\ result = HelloWorldPairs) =>
        (stdout = HelloWorldLine /\ exitStatus = 0)

\* C2 (amended): for the page of two items built as the engine builds them,
\* [box, ("Hello", confidence)] and [box, ("World", confidence)], the run
\* ends with status 0 having printed
\* {"text": "Hello\nWorld", "lines": ["Hello", "World"]}; for the pair-shaped
\* items item[1][0] is the first character of the string, and the run prints
\* {"text": "H\nW", "lines": ["H", "W"]} with status 0.
C2_EngineItemsPrintFullStrings ==
    /\ (Exited /\ result = HelloWorldPage) =>
          (stdout = HelloWorldLine /\ exitStatus = 0 /\ ~traceback)
    /\ (Exited /\ result = HelloWorldPairs) =>
          (stdout = FirstCharsLine /\ exitStatus = 0 /\ ~traceback)
C2_Witness == Exited /\ result = HelloWorldPage /\ stdout # <<>>

\* C3: whenever run_ocr has returned, text is lines joined by single
\* newlines: every line sits at its offset, one newline follows each line
\* but the last, nothing else is in text; text is empty for no lines and is
\* the line itself for one line.
C3_TextIsJoinedLines ==
    Returned =>
        LET n == Len(OutLines) IN
        /\ Len(OutText) = IF n = 0 THEN 0 ELSE OffsetOf(OutLines, n) - 1
        /\ \A k \in 1..n :
              LET off == OffsetOf(OutLines, k - 1) IN
              /\ SubSeq(OutText, off + 1, off + Len(OutLines[k])) = OutLines[k]
              /\ k < n => OutText[off + Len(OutLines[k]) + 1] = LF
        /\ n = 0 => OutText = <<>>
        /\ n = 1 => OutText = OutLines[1]
C3_Witness == Returned /\ Len(OutLines) >= 3 /\ OutLines[1] # OutLines[2]

\* C4: whenever run_ocr has returned for a result made of engine items, the
\* string of item j of page p is the element of lines at position
\* (number of items on the pages before p) + j: page order first, item
\* order within the page.
C4_PageThenItemOrder ==
    (Returned /\ EngineShaped(result)) =>
        \A p \in 1..Len(result.elems) :
            \A j \in 1..Len(result.elems[p].elems) :
                /\ ItemsBefore(result, p - 1) + j <= Len(OutLines)
                /\ OutLines[ItemsBefore(result, p - 1) + j]
                      = RecognizedString(result.elems[p].elems[j])
C4_Witness ==
    /\ Returned
    /\ EngineShaped(result)
    /\ Len(result.elems) = 2
    /\ OutLines = <<Hello, World, World, Hello>>

\* C5: when the engine returns zero pages the run prints
\* {"text": "", "lines": []}, with lines empty and text the empty string.
C5_ZeroPages ==
    (result = PyList(<<>>)) =>
        /\ lines = <<>>
        /\ stdout \in {<<>>, EmptyLine}
        /\ Returned => (OutText = <<>> /\ OutLines = <<>>)
        /\ Exited => (stdout = EmptyLine /\ exitStatus = 0 /\ ~traceback)
C5_Witness == result = PyList(<<>>) /\ Exited

\* C6: once an error of the engine or of reading its result went unhandled,
\* the process has ended with a non-zero status, nothing was printed (no
\* object for the items already collected either), and the engine was built
\* and invoked at most once.
C6_NoPartialResultNoRetry ==
    traceback =>
        /\ Exited
        /\ exitStatus > 0
        /\ stdout = <<>>
        /\ ~Returned
        /\ Len(ctorCalls) = 1
        /\ Len(ocrCalls) <= 1
C6_Witness == traceback /\ Len(ocrCalls) = 1 /\ Len(lines) > 0

\* C7: a run that ended without an unhandled error printed exactly one line
\* holding one object: the object with the two fields text and lines and
\* status 0 when a path was given, the object with the one field error and
\* status 1 when none was; no run ever prints a second line.
C7_ExactlyOneObject ==
    /\ CountLF(stdout) <= 1
    /\ (Exited /\ ~traceback) =>
          /\ CountLF(stdout) = 1
          /\ stdout[Len(stdout)] = LF
          /\ \/ /\ Len(argv) >= 2
                /\ exitStatus = 0
                /\ OutKeys = <<TextKey, LinesKey>>
                /\ stdout = JsonDumps(output) \o <<LF>>
                /\ stdout # ErrorLine
             \/ /\ Len(argv) < 2
                /\ exitStatus = 1
                /\ ~Returned
                /\ stdout = ErrorLine
C7_Witness == Exited /\ ~traceback /\ exitStatus = 0 /\ Len(OutLines) = 2

\* C8: with at least one positional argument the engine is built at most
\* once, with the fixed options, and asked at most once, for exactly the
\* first positional argument; both have happened once before anything is
\* printed.
C8_FirstArgumentOnce ==
    Len(argv) >= 2 =>
        /\ Len(ctorCalls) <= 1
        /\ Len(ocrCalls) <= 1
        /\ \A k \in 1..Len(ctorCalls) : ctorCalls[k] = OcrOptions
        /\ \A k \in 1..Len(ocrCalls) :
              ocrCalls[k] = [path |-> PyStr(argv[2]), cls |-> TRUE]
        /\ (stdout # <<>> \/ (Exited /\ ~traceback)) =>
              (Len(ctorCalls) = 1 /\ Len(ocrCalls) = 1)
C8_Witness ==
    /\ Len(argv) = 3
    /\ stdout # <<>>
    /\ ocrCalls = <<[path |-> PyStr(ImgPath), cls |-> TRUE]>>
C8_WitnessEmptyPath ==
    /\ argv[Len(argv)] = EmptyPath
    /\ Len(ocrCalls) = 1

\* C9: whenever run_ocr has returned, lines has as many elements as the
\* result has items over all its pages (equal strings are all kept).
C9_OneLinePerItem ==
    Returned => Len(OutLines) = ItemsBefore(result, Len(result.elems))
C9_Witness ==
    /\ Returned
    /\ Len(result.elems) = 2
    /\ OutLines = <<Hello, Hello, Hello>>

\* C10: with zero positional arguments the engine is never built and never
\* asked, run_ocr is never entered, and no text/lines object exists.
C10_NoEngineWithoutArgument ==
    Len(argv) < 2 =>
        /\ ctorCalls = <<>>
        /\ ocrCalls = <<>>
        /\ ~Returned
        /\ result = PyUnbound
        /\ pc \in {"main", "print_error", "sys_exit", "exited"}
        /\ ~traceback
C10_Witness == Len(argv) < 2 /\ Exited /\ exitStatus = 1

====
